---- MODULE Spec2Model ----
(***************************************************************************)
(* Model of data_conversion/conversion.py: the per-instrument normalizer   *)
(* process_stock_data, the batch driver main and the manifest generator    *)
(* generate_instruments_file, over an explicit file system.                *)
(*                                                                         *)
(* A file name is a sequence of symbols.  "_" and "." are the two          *)
(* delimiters the code splits on; every other symbol ("6", "0", "daily",   *)
(* "csv", "SH", ...) stands for text that holds neither delimiter.         *)
(* A CSV file is a record [cols, rows]: the set of its column headers and  *)
(* the sequence of its data rows.  A cell with no value (NaN) is NULL.     *)
(* The file system fails no write: creating the output directory and       *)
(* writing a file into an existing directory always succeed.               *)
(***************************************************************************)
EXTENDS Integers, Sequences, FiniteSets, TLC

VARIABLES
    noAdjDir,       \* unadjusted input directory: file name -> CSV file
    hfqDir,         \* backward-adjusted input directory
    qfqDir,         \* forward-adjusted input directory
    outExists,      \* whether the output directory exists
    outDir,         \* output directory: file name -> CSV file or manifest
    pc,             \* position of main: "start", "loop", "done", "raised"
    stock_codes,    \* main's list of discovered identifiers
    idx,            \* index in stock_codes of the next identifier to process
    success_count,  \* main's tally
    stdout,         \* what the program printed, in order
    raised,         \* the exception that left main, NoErr when none did
    calls,          \* history: the calls of process_stock_data, in order
    startFiles      \* history: the names the output directory held at the start

vars == <<noAdjDir, hfqDir, qfqDir, outExists, outDir, pc, stock_codes, idx,
          success_count, stdout, raised, calls, startFiles>>

(***************************************************************************)
(* Bounds of the model.                                                    *)
(***************************************************************************)
MaxFiles == 3       \* files in the unadjusted directory of a batch
MaxRows == 2        \* data rows of an unadjusted file
MaxAdjRows == 2     \* data rows of an adjusted file

(***************************************************************************)
(* Strings.                                                                *)
(***************************************************************************)
\* s.split(d)[0]: the text before the first occurrence of the delimiter d.
RECURSIVE SplitFirst(_, _)
SplitFirst(s, d) ==
    IF s = <<>> \/ Head(s) = d THEN <<>>
    ELSE <<Head(s)>> \o SplitFirst(Tail(s), d)

EndsWith(s, suf) ==
    /\ Len(s) >= Len(suf)
    /\ SubSeq(s, Len(s) - Len(suf) + 1, Len(s)) = suf

\* glob.glob(os.path.join(dir, "*" + suf)): the names of dir that end with
\* suf; a leading "*" never matches a name that starts with a dot.
Glob(dir, suf) ==
    {n \in DOMAIN dir : EndsWith(n, suf) /\ Head(n) # "."}

\* All orders in which a directory listing may return the names of S.
Listings(S) ==
    {q \in [1..Cardinality(S) -> S] : \A i, j \in DOMAIN q : q[i] = q[j] => i = j}

NoAdjSuffix == <<"_", "daily", ".", "csv">>
HfqSuffix == <<"_", "daily", "_", "hfq", ".", "csv">>
QfqSuffix == <<"_", "daily", "_", "qfq", ".", "csv">>
CsvSuffix == <<".", "csv">>
ManifestName == <<"instruments", ".", "txt">>

\* A faulty variant of Exchange, for C7: the first character is ignored.
ExchangeAlwaysSZ(stock_code) == <<"SZ">>

\* Lines 20-23, the exchange prefix: stock_code.startswith('6').

Exchange(stock_code) ==
    IF Len(stock_code) > 0 /\ Head(stock_code) = "6" THEN <<"SH">> ELSE <<"SZ">>

\* Line 104: the name of the output file.
OutputName(stock_code) == Exchange(stock_code) \o stock_code \o CsvSuffix

(***************************************************************************)
(* Cells and arithmetic.  Numbers in the input files are non-negative      *)
(* integers; a quotient is kept as the pair it was computed from.          *)
(***************************************************************************)
NULL == -1
LotSize == 100

NaN == [k |-> "nan", num |-> 0, den |-> 0]
Inf == [k |-> "inf", num |-> 0, den |-> 0]

\* Float division of two columns: x/0 is inf, 0/0 and anything with a
\* missing operand is NaN; nothing raises.
Div(a, b) ==
    IF a = NULL \/ b = NULL THEN NaN
    ELSE IF b = 0 THEN (IF a = 0 THEN NaN ELSE Inf)
    ELSE [k |-> "num", num |-> a, den |-> b]

Times(a, n) == IF a = NULL THEN NULL ELSE a * n

\* A faulty variant of VwapGuard, for C5: the quotient is kept as it is.
VwapGuardNone(vwap, volume) == vwap

\* The guard of the vwap column: x['vwap'] if x['volume'] > 0 else nan.

VwapGuard(vwap, volume) == IF volume # NULL /\ volume > 0 THEN vwap ELSE NaN

(***************************************************************************)
(* Dates.  A raw date is [day, fmt]: the calendar day and the way the file *)
(* writes it; fmt "bad" is text that is no date.  A file writes all its    *)
(* dates one way; two files may write the same day in different ways.      *)
(***************************************************************************)
Parses(d) == d.fmt # "bad"

\* pd.to_datetime(...).dt.strftime('%Y-%m-%d'): the canonical text of the day.
NormDate(d) == [day |-> d.day, fmt |-> "iso"]

NormDates(rows) == [i \in DOMAIN rows |-> [rows[i] EXCEPT !.date = NormDate(@)]]

(***************************************************************************)
(* Tables.  An unadjusted row is [date, volume, amount, close] (volume in  *)
(* lots); an adjusted row is [date, close].  The open, high and low        *)
(* columns of an adjusted file are selected, joined, renamed and emitted   *)
(* exactly as its close column is, and are not carried separately.         *)
(***************************************************************************)
NoAdjCols == {"date", "code", "volume", "amount", "close"}
AdjCols == {"date", "open", "close", "high", "low"}

\* The rows of right that carry the key d, in the order of right.
MatchesOf(right, d) == SelectSeq(right, LAMBDA r : r.date = d)

\* One left row of DataFrame.merge(right, on='date', how='left'): a row per
\* matching right row, or one row with NULL when there is none.
JoinRow(l, right) ==
    LET ms == MatchesOf(right, l.date)
    IN  IF ms = <<>> THEN <<<<l, NULL>>>>
        ELSE [i \in 1..Len(ms) |-> <<l, ms[i].close>>]

\* DataFrame.merge(right, on='date', how='left'): left order is kept; the
\* result is a sequence of pairs <<left row, right close>> with a fresh
\* index 1..n.
RECURSIVE MergeLeft(_, _)
MergeLeft(left, right) ==
    IF left = <<>> THEN <<>>
    ELSE JoinRow(Head(left), right) \o MergeLeft(Tail(left), right)

\* merged_df['close_no_adj'] = no_adj_df['close']: assignment of a column
\* aligns on the index, so row i of the merged table receives the close of
\* row i of the unadjusted file, and NULL where the file has no row i.
CloseNoAdj(no_adj, i, date) ==
    IF i \in DOMAIN no_adj THEN no_adj[i].close ELSE NULL

\* volume in shares: merged_df['volume'] = merged_df['成交量'] * 100.
Volume(lots) == Times(lots, LotSize)

\* Lines 36-98: the rows written for three loaded, well-formed tables.
Transform(no_adj_rows, hfq_rows, qfq_rows) ==
    LET no_adj == NormDates(no_adj_rows)
        hfq == NormDates(hfq_rows)
        qfq == NormDates(qfq_rows)
        base == [i \in DOMAIN no_adj |->
                    [date |-> no_adj[i].date, lots |-> no_adj[i].volume,
                     amount |-> no_adj[i].amount]]
        m1 == MergeLeft(base, hfq)
        withHfq == [i \in DOMAIN m1 |->
                    [date |-> m1[i][1].date, lots |-> m1[i][1].lots,
                     amount |-> m1[i][1].amount, close |-> m1[i][2]]]
        m2 == MergeLeft(withHfq, qfq)
        merged == [i \in DOMAIN m2 |->
                    [date |-> m2[i][1].date, lots |-> m2[i][1].lots,
                     amount |-> m2[i][1].amount, close |-> m2[i][1].close,
                     close_qfq |-> m2[i][2]]]
    IN  [i \in DOMAIN merged |->
            LET volume == Volume(merged[i].lots)
                amount == merged[i].amount
                close_no_adj == CloseNoAdj(no_adj, i, merged[i].date)
            IN  [date |-> merged[i].date,
                 close |-> merged[i].close,
                 volume |-> volume,
                 amount |-> amount,
                 vwap |-> VwapGuard(Div(amount, volume), volume),
                 factor |-> Div(merged[i].close, close_no_adj)]]

(***************************************************************************)
(* process_stock_data.                                                     *)
(***************************************************************************)
Err(type, what) == [type |-> type, what |-> what]
NoErr == Err("none", <<>>)

\* Line 37 for one table: df['date'] raises KeyError without the column,
\* pd.to_datetime raises ValueError on text that is no date.
DateError(df) ==
    IF "date" \notin df.cols THEN Err("KeyError", <<"date">>)
    ELSE IF \E i \in DOMAIN df.rows : ~Parses(df.rows[i].date)
         THEN Err("ValueError", <<"date">>)
    ELSE NoErr

\* Lines 40-56 and 87: the columns each selection needs.
ColumnError(no_adj, hfq, qfq) ==
    IF ~({"date", "code", "volume", "amount"} \subseteq no_adj.cols)
        THEN Err("KeyError", <<"no_adj">>)
    ELSE IF ~(AdjCols \subseteq hfq.cols) THEN Err("KeyError", <<"hfq">>)
    ELSE IF ~(AdjCols \subseteq qfq.cols) THEN Err("KeyError", <<"qfq">>)
    ELSE IF "close" \notin no_adj.cols THEN Err("KeyError", <<"close">>)
    ELSE NoErr

\* Lines 19-98: the first exception raised before anything is written, or
\* the rows to write.  read_csv raises FileNotFoundError for a missing file.
Attempt(stock_code) ==
    LET no_adj_file == stock_code \o NoAdjSuffix
        hfq_file == stock_code \o HfqSuffix
        qfq_file == stock_code \o QfqSuffix
        Failure(e) == [err |-> e, rows |-> <<>>]
    IN  IF no_adj_file \notin DOMAIN noAdjDir
            THEN Failure(Err("FileNotFoundError", no_adj_file))
        ELSE IF hfq_file \notin DOMAIN hfqDir
            THEN Failure(Err("FileNotFoundError", hfq_file))
        ELSE IF qfq_file \notin DOMAIN qfqDir
            THEN Failure(Err("FileNotFoundError", qfq_file))
        ELSE
            LET no_adj == noAdjDir[no_adj_file]
                hfq == hfqDir[hfq_file]
                qfq == qfqDir[qfq_file]
            IN  IF DateError(no_adj) # NoErr THEN Failure(DateError(no_adj))
                ELSE IF DateError(hfq) # NoErr THEN Failure(DateError(hfq))
                ELSE IF DateError(qfq) # NoErr THEN Failure(DateError(qfq))
                ELSE IF ColumnError(no_adj, hfq, qfq) # NoErr
                    THEN Failure(ColumnError(no_adj, hfq, qfq))
                ELSE [err |-> NoErr,
                      rows |-> Transform(no_adj.rows, hfq.rows, qfq.rows)]

\* A faulty variant of Caught, for C1: except FileNotFoundError.
CaughtOnlyMissingFile(e) == e.type = "FileNotFoundError"

\* except Exception: every exception the body raises is an Exception.

Caught(e) == e.type \in {"FileNotFoundError", "KeyError", "ValueError"}

CsvFile(rows) == [kind |-> "csv", body |-> rows]
TxtFile(lines) == [kind |-> "txt", body |-> lines]

\* A directory with the file name created or overwritten.
WriteFile(dir, name, file) ==
    [n \in DOMAIN dir \cup {name} |-> IF n = name THEN file ELSE dir[n]]

\* A faulty variant of OutDirOnFailure, for C8: the output file is opened
\* for writing before the inputs are loaded.
OutDirTruncatedOnFailure(stock_code) ==
    WriteFile(outDir, OutputName(stock_code), CsvFile(<<>>))

\* The output directory after a call that failed: the except branch of
\* lines 109-111 writes nothing, and nothing is written before line 101.

OutDirOnFailure(stock_code) == outDir

(***************************************************************************)
(* main and generate_instruments_file.                                     *)
(***************************************************************************)
\* Lines 121-124.
MainStart ==
    /\ pc = "start"
    /\ \E files \in Listings(Glob(noAdjDir, NoAdjSuffix)) :
          /\ stock_codes' = [i \in DOMAIN files |-> SplitFirst(files[i], "_")]
          /\ stdout' = Append(stdout, [ev |-> "found", n |-> Len(files)])
    /\ idx' = 1
    /\ success_count' = 0
    /\ pc' = "loop"
    /\ UNCHANGED <<noAdjDir, hfqDir, qfqDir, outExists, outDir, raised, calls, startFiles>>

\* A faulty variant of Tally, for C2: every call is counted.
TallyAll(count, ret) == count + 1

\* Lines 129-130: if process_stock_data(...): success_count += 1.

Tally(count, ret) == IF ret THEN count + 1 ELSE count

\* Lines 128-130: one iteration, the whole call of process_stock_data.
MainProcess ==
    /\ pc = "loop"
    /\ idx <= Len(stock_codes)
    /\ LET stock_code == stock_codes[idx]
           r == Attempt(stock_code)
       IN  IF r.err = NoErr THEN
               /\ outExists' = TRUE
               /\ outDir' = WriteFile(outDir, OutputName(stock_code), CsvFile(r.rows))
               /\ calls' = Append(calls, [code |-> stock_code, ret |-> TRUE])
               /\ success_count' = Tally(success_count, TRUE)
               /\ idx' = idx + 1
               /\ UNCHANGED <<stdout, pc, raised>>
           ELSE IF Caught(r.err) THEN
               /\ stdout' = Append(stdout,
                      [ev |-> "error", code |-> stock_code, msg |-> r.err.what])
               /\ outDir' = OutDirOnFailure(stock_code)
               /\ calls' = Append(calls, [code |-> stock_code, ret |-> FALSE])
               /\ success_count' = Tally(success_count, FALSE)
               /\ idx' = idx + 1
               /\ UNCHANGED <<outExists, pc, raised>>
           ELSE
               /\ pc' = "raised"
               /\ raised' = r.err
               /\ outDir' = OutDirOnFailure(stock_code)
               /\ UNCHANGED <<outExists, success_count, idx, stdout, calls>>
    /\ UNCHANGED <<noAdjDir, hfqDir, qfqDir, stock_codes, startFiles>>

\* Line 132.
MainSummary ==
    /\ pc = "loop"
    /\ idx > Len(stock_codes)
    /\ stdout' = Append(stdout,
           [ev |-> "summary", ok |-> success_count, total |-> Len(stock_codes)])
    /\ pc' = "manifest"
    /\ UNCHANGED <<noAdjDir, hfqDir, qfqDir, outExists, outDir, stock_codes, idx,
                   success_count, raised, calls, startFiles>>

\* instruments = [os.path.basename(f).split(".")[0] for f in csv_files]
Instruments(csv_files) == [i \in DOMAIN csv_files |-> SplitFirst(csv_files[i], ".")]

\* Lines 135-147: open(instruments_file, 'w') raises FileNotFoundError when
\* the directory does not exist; nothing in main catches it.
GenerateInstruments ==
    /\ pc = "manifest"
    /\ IF outExists THEN
           \E csv_files \in Listings(Glob(outDir, CsvSuffix)) :
              /\ outDir' = WriteFile(outDir, ManifestName,
                                     TxtFile(Instruments(csv_files)))
              /\ stdout' = Append(stdout, [ev |-> "manifest", n |-> Len(csv_files)])
              /\ pc' = "done"
              /\ UNCHANGED raised
       ELSE
           /\ pc' = "raised"
           /\ raised' = Err("FileNotFoundError", ManifestName)
           /\ UNCHANGED <<outDir, stdout>>
    /\ UNCHANGED <<noAdjDir, hfqDir, qfqDir, outExists, stock_codes, idx,
                   success_count, calls, startFiles>>

Next == MainStart \/ MainProcess \/ MainSummary \/ GenerateInstruments

(***************************************************************************)
(* Initial states.  Every one starts main on a file system; the input      *)
(* directories differ from the output directory.  An unadjusted file holds *)
(* at least one data row.                                                  *)
(***************************************************************************)
Day(n, f) == [day |-> n, fmt |-> f]

\* All sequences over S of length lo..hi.
SeqsOf(S, lo, hi) == UNION {[1..n -> S] : n \in lo..hi}

ProgramStart ==
    /\ pc = "start"
    /\ stock_codes = <<>>
    /\ idx = 1
    /\ success_count = 0
    /\ stdout = <<>>
    /\ raised = NoErr
    /\ calls = <<>>

\* --- Batches: which files exist, and what is wrong with them. -----------
\* The text before "_daily.csv" of the files of the unadjusted directory.
Stems == {<<"6", "0">>, <<"0">>, <<"0", "_", "6">>, <<"0", ".", "6">>}

CodeOf(name) == SplitFirst(name, "_")

\* What is wrong with the three files of an identifier.
Conds == {"ok", "no_hfq", "no_qfq", "bad_date", "no_column"}

BatchNoAdjRows ==
    <<[date |-> Day(1, "iso"), volume |-> 2, amount |-> 300, close |-> 1],
      [date |-> Day(2, "iso"), volume |-> 0, amount |-> 0, close |-> 2]>>
BatchAdjRows ==
    <<[date |-> Day(1, "slash"), close |-> 2], [date |-> Day(2, "slash"), close |-> 4]>>
BadAdjRows ==
    <<[date |-> Day(1, "slash"), close |-> 2], [date |-> Day(0, "bad"), close |-> 4]>>

\* The states of the output directory a batch starts on: absent; empty;
\* left by an earlier run; holding files of other origin.
OutInits ==
    {[exists |-> FALSE, files |-> <<>>],
     [exists |-> TRUE, files |-> <<>>],
     [exists |-> TRUE,
      files |-> WriteFile(WriteFile(<<>>, ManifestName, TxtFile(<<<<"SZ", "9">>>>)),
                          <<"SZ", "0", ".", "csv">>, CsvFile(<<>>))],
     [exists |-> TRUE,
      files |-> WriteFile(WriteFile(<<>>, <<"0", ".", "6", ".", "csv">>, CsvFile(<<>>)),
                          <<".", "0", ".", "csv">>, CsvFile(<<>>))]}

Init ==
    /\ ProgramStart
    /\ \E S \in SUBSET Stems :
          /\ Cardinality(S) <= MaxFiles
          /\ \E cond \in [{CodeOf(st) : st \in S} -> Conds] :
                /\ noAdjDir =
                      [n \in {st \o NoAdjSuffix : st \in S} |->
                          [cols |-> IF cond[CodeOf(n)] = "no_column"
                                    THEN NoAdjCols \ {"close"} ELSE NoAdjCols,
                           rows |-> BatchNoAdjRows]]
                /\ hfqDir =
                      [n \in {c \o HfqSuffix : c \in {d \in DOMAIN cond : cond[d] # "no_hfq"}} |->
                          [cols |-> AdjCols,
                           rows |-> IF cond[CodeOf(n)] = "bad_date"
                                    THEN BadAdjRows ELSE BatchAdjRows]]
                /\ qfqDir =
                      [n \in {c \o QfqSuffix : c \in {d \in DOMAIN cond : cond[d] # "no_qfq"}} |->
                          [cols |-> AdjCols, rows |-> BatchAdjRows]]
    /\ \E o \in OutInits : outExists = o.exists /\ outDir = o.files
    /\ startFiles = DOMAIN outDir

Spec == Init /\ [][Next]_vars

\* --- One instrument with three well-formed files of any content. --------
Days == {1, 2}
Formats == {"iso", "slash"}

OneInstrument(no_adj_rows, hfq_rows, qfq_rows) ==
    /\ ProgramStart
    /\ \E code \in {<<"6", "0">>, <<"0">>} :
          /\ noAdjDir = WriteFile(<<>>, code \o NoAdjSuffix,
                                  [cols |-> NoAdjCols, rows |-> no_adj_rows])
          /\ hfqDir = WriteFile(<<>>, code \o HfqSuffix,
                                [cols |-> AdjCols, rows |-> hfq_rows])
          /\ qfqDir = WriteFile(<<>>, code \o QfqSuffix,
                                [cols |-> AdjCols, rows |-> qfq_rows])
    /\ outExists = FALSE
    /\ outDir = <<>>
    /\ startFiles = {}

\* Volumes and amounts of any kind, over fixed adjusted files.
VwapNoAdjRows(f) ==
    [date : {Day(n, f) : n \in Days}, volume : {0, 2}, amount : {0, 300},
     close : {1, 2}]

InitVwap ==
    \E f \in Formats :
    \E no_adj_rows \in SeqsOf(VwapNoAdjRows(f), 1, MaxRows) :
        OneInstrument(no_adj_rows, BatchAdjRows, BatchAdjRows)

SpecVwap == InitVwap /\ [][Next]_vars

\* Dates of any kind in the three files, over a fixed volume and amount.
JoinNoAdjRows(f) ==
    [date : {Day(n, f) : n \in Days}, volume : {2}, amount : {300}, close : {1, 2}]
JoinAdjRows(f, closes) == [date : {Day(n, f) : n \in Days}, close : closes]

InitJoin ==
    \E f, g, h \in Formats :
    \E no_adj_rows \in SeqsOf(JoinNoAdjRows(f), 1, MaxRows) :
    \E hfq_rows \in SeqsOf(JoinAdjRows(g, {2, 4}), 0, MaxAdjRows) :
    \E qfq_rows \in SeqsOf(JoinAdjRows(h, {3}), 0, MaxAdjRows) :
        OneInstrument(no_adj_rows, hfq_rows, qfq_rows)

SpecJoin == InitJoin /\ [][Next]_vars

(***************************************************************************)
(* Properties.                                                             *)
(***************************************************************************)
\* The output name the specification gives an identifier: SH before an
\* identifier whose first character is 6, SZ before any other.
ExpectedOutput(c) ==
    (IF c # <<>> /\ c[1] = "6" THEN <<"SH">> ELSE <<"SZ">>) \o c \o <<".", "csv">>

ErrorsPrinted == SelectSeq(stdout, LAMBDA e : e.ev = "error")
FailedCalls == SelectSeq(calls, LAMBDA c : ~c.ret)
Summaries == SelectSeq(stdout, LAMBDA e : e.ev = "summary")
ManifestsPrinted == SelectSeq(stdout, LAMBDA e : e.ev = "manifest")

\* The three input files of identifier c exist.
HasAllFiles(c) ==
    /\ c \o NoAdjSuffix \in DOMAIN noAdjDir
    /\ c \o HfqSuffix \in DOMAIN hfqDir
    /\ c \o QfqSuffix \in DOMAIN qfqDir

\* One of the input files of c lacks a column or holds text that is no date.
HasMalformedFile(c) ==
    /\ HasAllFiles(c)
    /\ \/ "close" \notin noAdjDir[c \o NoAdjSuffix].cols
       \/ \E i \in DOMAIN hfqDir[c \o HfqSuffix].rows :
             hfqDir[c \o HfqSuffix].rows[i].date.fmt = "bad"

\* C1: process_stock_data never raises to its caller: no exception leaves
\* main from inside the loop; every call on a missing or malformed input
\* returns False; each call that returned False printed one diagnostic, in
\* order, naming its identifier and a message; each call that returned True
\* has written its output file.
C1_FailureIsCaughtAndReported ==
    /\ raised # NoErr => idx > Len(stock_codes) /\ pc = "raised"
    /\ Len(ErrorsPrinted) = Len(FailedCalls)
    /\ \A i \in DOMAIN FailedCalls :
          /\ ErrorsPrinted[i].code = FailedCalls[i].code
          /\ ErrorsPrinted[i].msg # <<>>
    /\ \A i \in DOMAIN calls :
          /\ ~HasAllFiles(calls[i].code) \/ HasMalformedFile(calls[i].code)
                => ~calls[i].ret
          /\ calls[i].ret =>
                /\ ExpectedOutput(calls[i].code) \in DOMAIN outDir
                /\ outDir[ExpectedOutput(calls[i].code)].kind = "csv"
                /\ outDir[ExpectedOutput(calls[i].code)].body # <<>>

\* C1 witness: a finished batch in which one call failed on a missing file,
\* one on a missing column and one on a date that does not parse.
C1_Witness ==
    /\ pc = "done"
    /\ Len(FailedCalls) = 3
    /\ \E i, j, k \in DOMAIN ErrorsPrinted :
          /\ ErrorsPrinted[i].msg = <<"close">>
          /\ ErrorsPrinted[j].msg = <<"date">>
          /\ ErrorsPrinted[k].msg = ErrorsPrinted[k].code \o HfqSuffix

\* The number of positions of sequence q that hold x.
CountIn(q, x) == Cardinality({i \in DOMAIN q : q[i] = x})
CallsOf(c) == Cardinality({i \in DOMAIN calls : calls[i].code = c})
Succeeded == {i \in DOMAIN calls : calls[i].ret}
AllAttempted == pc # "start" /\ idx > Len(stock_codes)

\* C2 as stated: once the loop is over, every identifier discovered has been
\* passed to the normalizer exactly once, and the success count is the
\* number of discovered identifiers whose normalization succeeded.
C2_EachIdentifierOnce ==
    AllAttempted =>
        /\ \A i \in DOMAIN stock_codes : CallsOf(stock_codes[i]) = 1
        /\ success_count =
              Cardinality({stock_codes[i] : i \in DOMAIN stock_codes}
                          \cap {calls[i].code : i \in Succeeded})

\* C2 amended: every file of the unadjusted directory that matches
\* *_daily.csv yields exactly one list entry and one call, in list order,
\* with the text before the file name's first underscore, whatever the
\* calls before it returned; the success count and the printed summary are
\* the number of calls that returned True; three identifiers of which
\* exactly one lacks only its backward-adjusted file give 2 out of 3.
C2_EachFileOnce ==
    /\ pc # "start" =>
          /\ Len(stock_codes) = Cardinality(Glob(noAdjDir, NoAdjSuffix))
          /\ \A n \in Glob(noAdjDir, NoAdjSuffix) :
                CountIn(stock_codes, SplitFirst(n, "_")) =
                   Cardinality({m \in Glob(noAdjDir, NoAdjSuffix) :
                                   SplitFirst(m, "_") = SplitFirst(n, "_")})
    /\ pc = "loop" => Len(calls) = idx - 1
    /\ Len(calls) <= Len(stock_codes)
    /\ \A i \in DOMAIN calls : calls[i].code = stock_codes[i]
    /\ success_count = Cardinality(Succeeded)
    /\ AllAttempted => Len(calls) = Len(stock_codes)
    /\ AllAttempted /\ pc # "loop" =>
          /\ Len(Summaries) = 1
          /\ Summaries[1].ok = Cardinality(Succeeded)
          /\ Summaries[1].total = Len(stock_codes)
          /\ ( /\ Len(stock_codes) = 3
               /\ \E i \in 1..3 :
                     /\ stock_codes[i] \o HfqSuffix \notin DOMAIN hfqDir
                     /\ \A j \in (1..3) \ {i} : Attempt(stock_codes[j]).err = NoErr )
             => Summaries[1].ok = 2 /\ Summaries[1].total = 3

\* C2 witness: a finished batch of three identifiers, the second of which
\* lacks its backward-adjusted file and alone failed: 2 out of 3.
C2_Witness ==
    /\ pc = "done"
    /\ Len(stock_codes) = 3
    /\ stock_codes[2] \o HfqSuffix \notin DOMAIN hfqDir
    /\ <<calls[1].ret, calls[2].ret, calls[3].ret>> = <<TRUE, FALSE, TRUE>>
    /\ Summaries = <<[ev |-> "summary", ok |-> 2, total |-> 3]>>

\* The unadjusted file of the identifier of a call.
NoAdjRowsOf(c) == noAdjDir[c \o NoAdjSuffix].rows
Written(c) == outDir[ExpectedOutput(c)].body

\* C3: the output file of every successful call has as many data rows as
\* the unadjusted input file, whatever dates the adjusted files hold.
C3_RowCountPreserved ==
    \A i \in Succeeded :
        Len(Written(calls[i].code)) = Len(NoAdjRowsOf(calls[i].code))

\* C4: in every row of every output file, factor is the backward-adjusted
\* close of the row divided by the unadjusted close recorded for the row's
\* own date.
C4_FactorOfSameDate ==
    \A i \in Succeeded :
        \A k \in DOMAIN Written(calls[i].code) :
            LET row == Written(calls[i].code)[k]
                no_adj == NoAdjRowsOf(calls[i].code)
            IN  \E j \in DOMAIN no_adj :
                    /\ no_adj[j].date.day = row.date.day
                    /\ row.factor = Div(row.close, no_adj[j].close)

\* C5: in every row of every output file the volume is the raw volume in
\* lots times 100; vwap times volume is the amount when the volume is
\* positive, and vwap is null when the volume is zero; a zero volume fails
\* no call.
C5_Vwap ==
    /\ \A i \in DOMAIN calls : calls[i].ret
    /\ \A i \in Succeeded :
          /\ Len(Written(calls[i].code)) = Len(NoAdjRowsOf(calls[i].code))
          /\ \A k \in DOMAIN Written(calls[i].code) :
                LET row == Written(calls[i].code)[k]
                    raw == NoAdjRowsOf(calls[i].code)[k]
                IN  /\ row.volume = raw.volume * 100
                    /\ row.amount = raw.amount
                    /\ row.volume > 0 =>
                          /\ row.vwap.k = "num"
                          /\ row.vwap.den # 0
                          /\ row.vwap.num * row.volume = row.amount * row.vwap.den
                    /\ row.volume = 0 => row.vwap = NaN

\* C5 witness: an output file written with a row of zero volume and a
\* positive amount, and a row of positive volume.
C5_Witness ==
    /\ pc = "done"
    /\ \E i \in Succeeded :
          \E k, l \in DOMAIN Written(calls[i].code) :
             /\ Written(calls[i].code)[k].volume = 0
             /\ Written(calls[i].code)[k].amount = 300
             /\ Written(calls[i].code)[k].vwap = NaN
             /\ Written(calls[i].code)[l].volume = 200
             /\ Written(calls[i].code)[l].vwap = [k |-> "num", num |-> 300, den |-> 200]

\* The names of the output directory that end with .csv, and such a name
\* without its extension.
CsvNames == {n \in DOMAIN outDir : EndsWith(n, <<".", "csv">>)}
WithoutExtension(n) == SubSeq(n, 1, Len(n) - 2)

\* C6: after generate_instruments_file has run, the manifest holds exactly
\* one line per .csv file of the output directory, each line being the
\* file's name without its extension, and nothing else.
C6_ManifestListsEveryCsv ==
    pc = "done" =>
        /\ ManifestName \in DOMAIN outDir
        /\ LET lines == outDir[ManifestName].body
           IN  /\ Len(lines) = Cardinality(CsvNames)
               /\ \A n \in CsvNames : CountIn(lines, WithoutExtension(n)) = 1
               /\ \A i \in DOMAIN lines : \E n \in CsvNames : lines[i] = WithoutExtension(n)

\* C7: every successful call wrote the file named SH + identifier + .csv
\* when the identifier starts with 6 and SZ + identifier + .csv otherwise
\* (60 gives SH60.csv, 0 gives SZ0.csv), and no file under the other exchange
\* code; two different identifiers never share an output name.
C7_OutputName ==
    /\ \A i \in Succeeded :
          LET c == calls[i].code
              other == (IF c # <<>> /\ c[1] = "6" THEN <<"SZ">> ELSE <<"SH">>)
                          \o c \o <<".", "csv">>
          IN  /\ ExpectedOutput(c) \in DOMAIN outDir
              /\ outDir[ExpectedOutput(c)].kind = "csv"
              /\ outDir[ExpectedOutput(c)].body # <<>>
              /\ other \notin DOMAIN outDir
              /\ c = <<"6", "0">> => <<"SH", "6", "0", ".", "csv">> \in DOMAIN outDir
              /\ c = <<"0">> => <<"SZ", "0", ".", "csv">> \in DOMAIN outDir
    /\ \A i, j \in DOMAIN stock_codes :
          stock_codes[i] # stock_codes[j]
             => OutputName(stock_codes[i]) # OutputName(stock_codes[j])

\* C7 witness: a finished batch that wrote SH60.csv for 60 and SZ0.csv for 0.
C7_Witness ==
    /\ pc = "done"
    /\ {<<"6", "0">>, <<"0">>} \subseteq {calls[i].code : i \in Succeeded}
    /\ {<<"SH", "6", "0", ".", "csv">>, <<"SZ", "0", ".", "csv">>} \subseteq DOMAIN outDir
    /\ startFiles = {}

\* C8: a call of process_stock_data for identifier X changes no input file
\* and no file of the output directory other than X's output file; a call
\* that succeeds creates or overwrites that file, and a call that fails
\* leaves the whole output directory as it was.
C8_Frame ==
    [][Len(calls') = Len(calls) + 1 =>
          LET x == calls'[Len(calls')]
              target == ExpectedOutput(x.code)
          IN  /\ noAdjDir' = noAdjDir /\ hfqDir' = hfqDir /\ qfqDir' = qfqDir
              /\ DOMAIN outDir' \subseteq DOMAIN outDir \cup {target}
              /\ \A n \in DOMAIN outDir \ {target} :
                    n \in DOMAIN outDir' /\ outDir'[n] = outDir[n]
              /\ x.ret => target \in DOMAIN outDir' /\ outDir'[target].kind = "csv"
              /\ ~x.ret => outDir' = outDir /\ outExists' = outExists]_vars

\* C8 witness: a call for 0 failed on a directory that holds the output of
\* an earlier run for 0 and an earlier manifest, both still as they were,
\* after a call for another identifier succeeded.
C8_Witness ==
    /\ pc = "loop"
    /\ \E i, j \in DOMAIN calls :
          /\ calls[i].code = <<"0">> /\ ~calls[i].ret
          /\ calls[j].ret
    /\ <<"SZ", "0", ".", "csv">> \in DOMAIN outDir
    /\ outDir[<<"SZ", "0", ".", "csv">>] = CsvFile(<<>>)
    /\ ManifestName \in DOMAIN outDir
    /\ outDir[ManifestName] = TxtFile(<<<<"SZ", "9">>>>)

\* C9: every batch run, once all discovered identifiers have been attempted,
\* ends by writing the manifest exactly once: main never stops without it,
\* also when every identifier fails or none is discovered.
C9_ManifestWrittenOnce ==
    /\ pc \in {"done", "raised"} =>
          /\ AllAttempted
          /\ Len(ManifestsPrinted) = 1
          /\ ManifestName \in DOMAIN outDir
    /\ pc \notin {"done", "raised"} => Len(ManifestsPrinted) = 0

\* C10: when a batch that started on an empty output directory is done, the
\* manifest lists exactly the names exchange code + identifier of the
\* identifiers whose normalization succeeded, on as many lines as the
\* success count.
C10_ManifestIsSuccesses ==
    pc = "done" /\ startFiles = {} =>
        LET lines == outDir[ManifestName].body
        IN  /\ {lines[i] : i \in DOMAIN lines} =
                  {WithoutExtension(ExpectedOutput(calls[i].code)) : i \in Succeeded}
            /\ Len(lines) = success_count

====
